---- MODULE Spec2Model ----
(***************************************************************************)
(* Model of scripts/performance_monitor.py: the PerformanceMonitor class   *)
(* (extraction engine, history store, trend analyzer) and the monitor loop *)
(* of main().                                                              *)
(*                                                                         *)
(* Text is modelled as sequences of one-character strings, Python floats   *)
(* as exact rationals [n, d] (decimal literals only: no exponent, nan or   *)
(* inf), files as sequences of JSON tokens.                                *)
(***************************************************************************)
EXTENDS Integers, Sequences, FiniteSets, TLC

(***************************************************************************)
(* Python str operations                                                   *)
(***************************************************************************)
Whitespace == {" ", "\t"}

Digits == {"0", "1", "2", "3", "4", "5", "6", "7", "8", "9"}

DigitVal(c) ==
    CASE c = "0" -> 0 [] c = "1" -> 1 [] c = "2" -> 2 [] c = "3" -> 3
      [] c = "4" -> 4 [] c = "5" -> 5 [] c = "6" -> 6 [] c = "7" -> 7
      [] c = "8" -> 8 [] c = "9" -> 9

DigitChar(v) ==
    CASE v = 0 -> "0" [] v = 1 -> "1" [] v = 2 -> "2" [] v = 3 -> "3"
      [] v = 4 -> "4" [] v = 5 -> "5" [] v = 6 -> "6" [] v = 7 -> "7"
      [] v = 8 -> "8" [] v = 9 -> "9"

\* str.lower() on one character
LowerChar(c) ==
    CASE c = "A" -> "a" [] c = "B" -> "b" [] c = "C" -> "c" [] c = "D" -> "d"
      [] c = "E" -> "e" [] c = "F" -> "f" [] c = "G" -> "g" [] c = "H" -> "h"
      [] c = "I" -> "i" [] c = "J" -> "j" [] c = "K" -> "k" [] c = "L" -> "l"
      [] c = "M" -> "m" [] c = "N" -> "n" [] c = "O" -> "o" [] c = "P" -> "p"
      [] c = "Q" -> "q" [] c = "R" -> "r" [] c = "S" -> "s" [] c = "T" -> "t"
      [] c = "U" -> "u" [] c = "V" -> "v" [] c = "W" -> "w" [] c = "X" -> "x"
      [] c = "Y" -> "y" [] c = "Z" -> "z" [] OTHER -> c

\* s.lower()
Lower(s) == [i \in 1..Len(s) |-> LowerChar(s[i])]

\* s[i:] with a 1-based start
From(s, i) == SubSeq(s, i, Len(s))

\* s.find(sub) + 1: the first 1-based position of sub in s, 0 when absent
Find(s, sub) ==
    LET hits == {i \in 1..(Len(s) - Len(sub) + 1) :
                    SubSeq(s, i, i + Len(sub) - 1) = sub}
    IN  IF hits = {} THEN 0
        ELSE CHOOSE i \in hits : \A j \in hits : i <= j

\* sub in s
Contains(s, sub) == Find(s, sub) # 0

RECURSIVE SplitOn(_, _)
\* s.split(sep)
SplitOn(s, sep) ==
    LET i == Find(s, sep)
    IN  IF i = 0 THEN <<s>>
        ELSE <<SubSeq(s, 1, i - 1)>> \o SplitOn(From(s, i + Len(sep)), sep)

RECURSIVE Replace(_, _)
\* s.replace(sub, '')
Replace(s, sub) ==
    LET i == Find(s, sub)
    IN  IF i = 0 THEN s
        ELSE SubSeq(s, 1, i - 1) \o Replace(From(s, i + Len(sub)), sub)

RECURSIVE LStrip(_)
LStrip(s) ==
    IF s # <<>> /\ Head(s) \in Whitespace THEN LStrip(Tail(s)) ELSE s

RECURSIVE RStrip(_)
RStrip(s) ==
    IF s # <<>> /\ s[Len(s)] \in Whitespace
    THEN RStrip(SubSeq(s, 1, Len(s) - 1)) ELSE s

\* s.strip()
Strip(s) == RStrip(LStrip(s))

RECURSIVE SplitWS(_)
\* s.split(): the maximal runs of non-whitespace characters
SplitWS(s) ==
    LET t == LStrip(s)
        ws == {i \in 1..Len(t) : t[i] \in Whitespace}
        e == IF ws = {} THEN Len(t) + 1
             ELSE CHOOSE i \in ws : \A j \in ws : i <= j
    IN  IF t = <<>> THEN <<>>
        ELSE <<SubSeq(t, 1, e - 1)>> \o SplitWS(From(t, e))

(***************************************************************************)
(* Python numbers: a float is the exact rational n/d in lowest terms       *)
(***************************************************************************)
Abs(x) == IF x < 0 THEN -x ELSE x

RECURSIVE GCD(_, _)
GCD(a, b) == IF b = 0 THEN a ELSE GCD(b, a % b)

Zero == [n |-> 0, d |-> 1]

Rat(num, den) ==
    LET g == GCD(Abs(num), Abs(den))
        s == IF den < 0 THEN -1 ELSE 1
    IN  IF den = 0 THEN Zero
        ELSE [n |-> s * (num \div g), d |-> s * (den \div g)]

RatOfInt(k) == [n |-> k, d |-> 1]

RatAdd(a, b) == Rat(a.n * b.d + b.n * a.d, a.d * b.d)

RatSub(a, b) == Rat(a.n * b.d - b.n * a.d, a.d * b.d)

RatMul(a, b) == Rat(a.n * b.n, a.d * b.d)

\* a / b for b # 0
RatDiv(a, b) == Rat(a.n * b.d, a.d * b.n)

RatLt(a, b) == a.n * b.d < b.n * a.d

RatGt(a, b) == RatLt(b, a)

\* max(a, b): the first argument unless the second is greater
PyMax(a, b) == IF RatGt(b, a) THEN b ELSE a

RECURSIVE Pow10(_)
Pow10(k) == IF k = 0 THEN 1 ELSE 10 * Pow10(k - 1)

RECURSIVE NatOf(_)
\* the value of a sequence of decimal digits
NatOf(ds) ==
    IF ds = <<>> THEN 0
    ELSE 10 * NatOf(SubSeq(ds, 1, Len(ds) - 1)) + DigitVal(ds[Len(ds)])

RECURSIVE NatChars(_)
\* str(n) for n >= 0
NatChars(n) ==
    IF n < 10 THEN <<DigitChar(n)>>
    ELSE NatChars(n \div 10) \o <<DigitChar(n % 10)>>

AllDigits(s) == \A i \in 1..Len(s) : s[i] \in Digits

ValueError == [ok |-> FALSE, val |-> Zero]

\* float(s), on decimal literals: [sign] digits [. digits], whitespace
\* around it ignored; anything else raises ValueError
PyFloat(s) ==
    LET t == Strip(s)
        signed == t # <<>> /\ t[1] \in {"-", "+"}
        body == IF signed THEN Tail(t) ELSE t
        dot == Find(body, <<".">>)
        ip == IF dot = 0 THEN body ELSE SubSeq(body, 1, dot - 1)
        fp == IF dot = 0 THEN <<>> ELSE From(body, dot + 1)
        mag == NatOf(ip) * Pow10(Len(fp)) + NatOf(fp)
    IN  IF AllDigits(ip) /\ AllDigits(fp) /\ Len(ip) + Len(fp) > 0
        THEN [ok |-> TRUE,
              val |-> Rat(IF signed /\ t[1] = "-" THEN -mag ELSE mag,
                          Pow10(Len(fp)))]
        ELSE ValueError

IntError == [ok |-> FALSE, val |-> 0]

\* int(s): [sign] digits, whitespace around it ignored
PyInt(s) ==
    LET t == Strip(s)
        signed == t # <<>> /\ t[1] \in {"-", "+"}
        body == IF signed THEN Tail(t) ELSE t
    IN  IF AllDigits(body) /\ body # <<>>
        THEN [ok |-> TRUE,
              val |-> IF signed /\ t[1] = "-" THEN -NatOf(body) ELSE NatOf(body)]
        ELSE IntError

(***************************************************************************)
(* Extraction engine: parse_performance_output                             *)
(***************************************************************************)
StrNewline == <<"\n">>
StrOpsSec == <<"o","p","s","/","s","e","c">>
StrAvgEq == <<"a","v","g","=">>
StrMs == <<"m","s">>
StrMemory == <<"M","e","m","o","r","y",":">>
StrMB == <<"M","B">>
StrCache == <<"C","a","c","h","e",":">>
StrHitRatio == <<"h","i","t","_","r","a","t","i","o","=">>
StrSuccess == <<"s","u","c","c","e","s","s">>
StrPassing == <<"P","a","s","s","i","n","g"," ","T","e","s","t","s",":">>
StrTotal == <<"T","o","t","a","l"," ","T","e","s","t","s",":">>

\* datetime.now().isoformat(): the clock reading as text
IsoFormat(now) == NatChars(now)

\* the record parse_performance_output starts from
DefaultMetrics(now) ==
    [timestamp |-> IsoFormat(now), throughput |-> Zero, latency_avg |-> Zero,
     latency_p95 |-> Zero, memory_usage |-> Zero, cache_hit_ratio |-> Zero,
     success_rate |-> Zero, tests_passed |-> 0, tests_total |-> 0]

RECURSIVE ThroughputScan(_, _, _)
\* the loop over enumerate(parts); a ValueError leaves the loop and keeps
\* what was assigned before it
ThroughputScan(parts, i, cur) ==
    IF i > Len(parts) THEN cur
    ELSE IF Contains(parts[i], StrOpsSec) /\ i > 1
         THEN LET f == PyFloat(parts[i - 1])
              IN  IF f.ok THEN ThroughputScan(parts, i + 1, PyMax(cur, f.val))
                  ELSE cur
         ELSE ThroughputScan(parts, i + 1, cur)

ExtractThroughput(m, line) ==
    IF Contains(line, StrOpsSec)
    THEN [m EXCEPT !.throughput = ThroughputScan(SplitWS(line), 1, @)]
    ELSE m

ExtractLatency(m, line) ==
    IF Contains(line, StrAvgEq) /\ Contains(line, StrMs)
    THEN LET avg_part == SplitOn(SplitOn(line, StrAvgEq)[2], <<",">>)[1]
             f == PyFloat(Replace(avg_part, StrMs))
         IN  IF Contains(avg_part, StrMs) /\ f.ok
             THEN [m EXCEPT !.latency_avg = f.val]
             ELSE m
    ELSE m

RECURSIVE MemoryScanFirst(_, _, _)
\* a loop that stops after the first token containing MB
MemoryScanFirst(parts, i, cur) ==
    IF i > Len(parts) THEN cur
    ELSE IF Contains(parts[i], StrMB)
         THEN LET f == PyFloat(Replace(parts[i], StrMB))
              IN  IF f.ok THEN PyMax(cur, f.val) ELSE cur
         ELSE MemoryScanFirst(parts, i + 1, cur)

RECURSIVE MemoryScan(_, _, _)
\* the loop over parts: every token containing MB is parsed, in order,
\* until one raises ValueError
MemoryScan(parts, i, cur) ==
    IF i > Len(parts) THEN cur
    ELSE IF Contains(parts[i], StrMB)
         THEN LET f == PyFloat(Replace(parts[i], StrMB))
              IN  IF f.ok THEN MemoryScan(parts, i + 1, PyMax(cur, f.val))
                  ELSE cur
         ELSE MemoryScan(parts, i + 1, cur)

ExtractMemory(m, line) ==
    IF Contains(line, StrMemory) /\ Contains(line, StrMB)
    THEN [m EXCEPT !.memory_usage = MemoryScan(SplitWS(line), 1, @)]
    ELSE m

ExtractCache(m, line) ==
    IF Contains(line, StrCache) /\ Contains(line, <<"%">>)
    THEN LET pieces == SplitOn(line, StrHitRatio)
             f == PyFloat(SplitOn(pieces[2], <<"%">>)[1])
         IN  IF Len(pieces) >= 2 /\ f.ok
             THEN [m EXCEPT !.cache_hit_ratio = f.val]
             ELSE m
    ELSE m

\* the loop over parts with its break: only the first token containing %
ExtractSuccess(m, line) ==
    IF Contains(Lower(line), StrSuccess) /\ Contains(line, <<"%">>)
    THEN LET parts == SplitWS(line)
             hits == {i \in 1..Len(parts) : Contains(parts[i], <<"%">>)}
             first == CHOOSE i \in hits : \A j \in hits : i <= j
             f == PyFloat(Replace(parts[first], <<"%">>))
         IN  IF hits # {} /\ f.ok
             THEN [m EXCEPT !.success_rate = f.val]
             ELSE m
    ELSE m

ExtractPassed(m, line) ==
    IF Contains(line, StrPassing)
    THEN LET pieces == SplitOn(line, <<":">>)
             v == PyInt(pieces[2])
         IN  IF Len(pieces) >= 2 /\ v.ok
             THEN [m EXCEPT !.tests_passed = v.val]
             ELSE m
    ELSE m

ExtractTotal(m, line) ==
    IF Contains(line, StrTotal)
    THEN LET pieces == SplitOn(line, <<":">>)
             v == PyInt(pieces[2])
         IN  IF Len(pieces) >= 2 /\ v.ok
             THEN [m EXCEPT !.tests_total = v.val]
             ELSE m
    ELSE m

\* the body of the loop over lines
ParseLine(m, raw) ==
    LET line == Strip(raw)
    IN  ExtractTotal(ExtractPassed(ExtractSuccess(ExtractCache(
            ExtractMemory(ExtractLatency(ExtractThroughput(m, line), line),
                          line), line), line), line), line)

RECURSIVE ParseLines(_, _, _)
ParseLines(m, lines, i) ==
    IF i > Len(lines) THEN m
    ELSE ParseLines(ParseLine(m, lines[i]), lines, i + 1)

parse_performance_output(output, now) ==
    ParseLines(DefaultMetrics(now), SplitOn(output, StrNewline), 1)

\* 'Throughput: 1234.5 ops/sec'
LineThroughput ==
    <<"T","h","r","o","u","g","h","p","u","t",":"," ","1","2","3","4",".","5"," ","o","p","s","/","s","e","c">>
\* '900 ops/sec'
LineThroughputLow ==
    <<"9","0","0"," ","o","p","s","/","s","e","c">>
\* 'Latency: avg=12.3ms, p95=20.0ms'
LineLatency ==
    <<"L","a","t","e","n","c","y",":"," ","a","v","g","=","1","2",".","3","m","s",","," ","p","9","5","=","2","0",".","0","m","s">>
\* 'avg=-5.0ms, p95=1.0ms'
LineLatencyNeg ==
    <<"a","v","g","=","-","5",".","0","m","s",","," ","p","9","5","=","1",".","0","m","s">>
\* 'Memory: 256.0MB used'
LineMemory ==
    <<"M","e","m","o","r","y",":"," ","2","5","6",".","0","M","B"," ","u","s","e","d">>
\* 'Memory: 100MB 200MB'
LineMemoryTwo ==
    <<"M","e","m","o","r","y",":"," ","1","0","0","M","B"," ","2","0","0","M","B">>
\* 'Memory: 300MB xMB 900MB'
LineMemoryBad ==
    <<"M","e","m","o","r","y",":"," ","3","0","0","M","B"," ","x","M","B"," ","9","0","0","M","B">>
\* '  Memory: -5MB'
LineMemoryNeg ==
    <<" "," ","M","e","m","o","r","y",":"," ","-","5","M","B">>
\* 'Cache: hit_ratio=87.5%'
LineCache ==
    <<"C","a","c","h","e",":"," ","h","i","t","_","r","a","t","i","o","=","8","7",".","5","%">>
\* 'Cache: hit_ratio=150%'
LineCacheOver ==
    <<"C","a","c","h","e",":"," ","h","i","t","_","r","a","t","i","o","=","1","5","0","%">>
\* 'Cache: 50%'
LineCacheNoKey ==
    <<"C","a","c","h","e",":"," ","5","0","%">>
\* 'Success rate: 99.5% of 100%'
LineSuccess ==
    <<"S","u","c","c","e","s","s"," ","r","a","t","e",":"," ","9","9",".","5","%"," ","o","f"," ","1","0","0","%">>
\* 'SUCCESS -3%'
LineSuccessNeg ==
    <<"S","U","C","C","E","S","S"," ","-","3","%">>
\* 'Passing Tests: 42'
LinePassing ==
    <<"P","a","s","s","i","n","g"," ","T","e","s","t","s",":"," ","4","2">>
\* 'Total Tests: 50'
LineTotal ==
    <<"T","o","t","a","l"," ","T","e","s","t","s",":"," ","5","0">>
(***************************************************************************)
(* History store: json.dump / json.load over files of JSON tokens          *)
(***************************************************************************)
FieldOrder ==
    <<"timestamp", "throughput", "latency_avg", "latency_p95",
      "memory_usage", "cache_hit_ratio", "success_rate", "tests_passed",
      "tests_total">>

FloatFields ==
    {"throughput", "latency_avg", "latency_p95", "memory_usage",
     "cache_hit_ratio", "success_rate"}

IntFields == {"tests_passed", "tests_total"}

Fields == {FieldOrder[i] : i \in 1..Len(FieldOrder)}

IsMetricRecord(r) == DOMAIN r = Fields

Punct(k) == [k |-> k, s |-> "", c |-> <<>>]

KeyTok(name) == [k |-> "key", s |-> name, c |-> <<>>]

NumTok(chars) == [k |-> "num", s |-> "", c |-> chars]

StrTok(chars) == [k |-> "str", s |-> "", c |-> chars]

\* int.__repr__
IntRepr(i) == IF i < 0 THEN <<"-">> \o NatChars(-i) ELSE NatChars(i)

RECURSIVE DecPlaces(_, _)
\* the number of decimals needed to write a fraction of denominator d
DecPlaces(d, k) == IF Pow10(k) % d = 0 THEN k ELSE DecPlaces(d, k + 1)

RECURSIVE ZeroPad(_, _)
ZeroPad(s, k) == IF Len(s) >= k THEN s ELSE ZeroPad(<<"0">> \o s, k)

\* float.__repr__ with the sign left out
FloatReprUnsigned(r) ==
    LET k == DecPlaces(r.d, 0)
        scaled == Abs(r.n) * (Pow10(k) \div r.d)
    IN  NatChars(scaled \div Pow10(k)) \o <<".">> \o
        (IF k = 0 THEN <<"0">> ELSE ZeroPad(NatChars(scaled % Pow10(k)), k))

\* float.__repr__: the shortest decimal that reads back as the same float
FloatRepr(r) ==
    LET k == DecPlaces(r.d, 0)
        scaled == Abs(r.n) * (Pow10(k) \div r.d)
    IN  (IF r.n < 0 THEN <<"-">> ELSE <<>>) \o
        NatChars(scaled \div Pow10(k)) \o <<".">> \o
        (IF k = 0 THEN <<"0">> ELSE ZeroPad(NatChars(scaled % Pow10(k)), k))

\* the JSON encoder on one field of a record
JsonValue(r, f) ==
    IF f = "timestamp" THEN StrTok(r[f])
    ELSE IF f \in FloatFields THEN NumTok(FloatRepr(r[f]))
    ELSE NumTok(IntRepr(r[f]))

RECURSIVE JsonMembers(_, _)
JsonMembers(r, i) ==
    IF i > Len(FieldOrder) THEN <<>>
    ELSE <<KeyTok(FieldOrder[i]), JsonValue(r, FieldOrder[i])>> \o
         (IF i < Len(FieldOrder) THEN <<Punct(",")>> ELSE <<>>) \o
         JsonMembers(r, i + 1)

\* json.dump(metrics, f): one object
JsonDumpObject(r) == <<Punct("{")>> \o JsonMembers(r, 1) \o <<Punct("}")>>

RECURSIVE JsonElements(_, _)
JsonElements(h, i) ==
    IF i > Len(h) THEN <<>>
    ELSE JsonDumpObject(h[i]) \o
         (IF i < Len(h) THEN <<Punct(",")>> ELSE <<>>) \o
         JsonElements(h, i + 1)

\* json.dump(self.metrics_history, f): a list of objects
JsonDumpList(h) == <<Punct("[")>> \o JsonElements(h, 1) \o <<Punct("]")>>

JsonError == [ok |-> FALSE, kind |-> "error", items |-> <<>>]

\* the JSON decoder on a scalar token: float() on a number with a
\* fraction, int() on one without, the text of a string
JsonScalar(tok) ==
    IF tok.k = "str" THEN [ok |-> TRUE, val |-> tok.c]
    ELSE IF Contains(tok.c, <<".">>) THEN PyFloat(tok.c)
    ELSE PyInt(tok.c)

\* the decoder on the tokens between { and }: key, value pairs separated
\* by commas
JsonObject(inner) ==
    LET p == (Len(inner) + 1) \div 3
        wellFormed ==
            /\ Len(inner) = 0 \/ Len(inner) = 3 * p - 1
            /\ \A q \in 1..p :
                /\ inner[3 * q - 2].k = "key"
                /\ inner[3 * q - 1].k \in {"num", "str"}
                /\ JsonScalar(inner[3 * q - 1]).ok
                /\ q < p => inner[3 * q].k = ","
        keys == {inner[3 * q - 2].s : q \in 1..p}
        last(name) == CHOOSE q \in 1..p :
                        /\ inner[3 * q - 2].s = name
                        /\ \A q2 \in 1..p : inner[3 * q2 - 2].s = name => q2 <= q
    IN  IF wellFormed
        THEN [ok |-> TRUE,
              val |-> [name \in keys |->
                          JsonScalar(inner[3 * last(name) - 1]).val]]
        ELSE [ok |-> FALSE, val |-> <<>>]

\* the position of the first } at or after i, 0 when there is none
CloseAt(toks, i) ==
    LET cs == {j \in i..Len(toks) : toks[j].k = "}"}
    IN  IF cs = {} THEN 0 ELSE CHOOSE j \in cs : \A j2 \in cs : j <= j2

RECURSIVE JsonArray(_, _, _)
\* the decoder on the elements of a list, from token i on
JsonArray(toks, i, acc) ==
    LET j == CloseAt(toks, i)
        obj == JsonObject(SubSeq(toks, i + 1, j - 1))
    IN  IF i > Len(toks) \/ toks[i].k # "{" \/ j = 0 THEN JsonError
        ELSE IF ~obj.ok THEN JsonError
        ELSE IF j + 1 = Len(toks) /\ toks[j + 1].k = "]"
             THEN [ok |-> TRUE, kind |-> "list",
                   items |-> Append(acc, obj.val)]
        ELSE IF j + 1 < Len(toks) /\ toks[j + 1].k = ","
             THEN JsonArray(toks, j + 2, Append(acc, obj.val))
        ELSE JsonError

\* json.load(f): a list of objects, or one object; anything else in the
\* file raises
JsonLoad(toks) ==
    IF toks = <<>> THEN JsonError
    ELSE IF toks[1].k = "["
         THEN IF Len(toks) = 2 /\ toks[2].k = "]"
              THEN [ok |-> TRUE, kind |-> "list", items |-> <<>>]
              ELSE JsonArray(toks, 2, <<>>)
    ELSE IF toks[1].k = "{"
         THEN LET obj == JsonObject(SubSeq(toks, 2, Len(toks) - 1))
              IN  IF CloseAt(toks, 1) = Len(toks) /\ obj.ok
                  THEN [ok |-> TRUE, kind |-> "dict", items |-> <<obj.val>>]
                  ELSE JsonError
    ELSE JsonError

(***************************************************************************)
(* Trend analyzer: generate_trend_analysis                                 *)
(***************************************************************************)
Min(a, b) == IF a < b THEN a ELSE b

Max(a, b) == IF a > b THEN a ELSE b

\* a slice bound as Python normalises it for a sequence of length n
SliceBound(i, n) == IF i < 0 THEN Max(i + n, 0) ELSE Min(i, n)

\* h[lo:hi]
PySlice(h, lo, hi) ==
    SubSeq(h, SliceBound(lo, Len(h)) + 1, SliceBound(hi, Len(h)))

\* self.metrics_history[-5:]
RecentWindow(h) == PySlice(h, -5, Len(h))

\* self.metrics_history[:-5] in every case
OlderWindowNoTen(h) == PySlice(h, 0, -5)

\* self.metrics_history[-10:-5] if len >= 10 else self.metrics_history[:-5]
OlderWindow(h) ==
    IF Len(h) >= 10 THEN PySlice(h, -10, -5) ELSE PySlice(h, 0, -5)

metrics_to_analyze ==
    {"throughput", "latency_avg", "memory_usage", "cache_hit_ratio",
     "success_rate"}

RECURSIVE SumField(_, _, _)
\* sum(m[metric_name] for m in window)
SumField(w, metric_name, i) ==
    IF i > Len(w) THEN Zero
    ELSE RatAdd(w[i][metric_name], SumField(w, metric_name, i + 1))

\* a division as the analyzer performs it: what is divided by what
Division(what, metric_name, by) ==
    [what |-> what, metric |-> metric_name, by |-> by]

\* calc_trend without the test of older_avg == 0
calc_trend_unguarded(metric_name, recent, older) ==
    LET recent_avg == RatDiv(SumField(recent, metric_name, 1),
                             RatOfInt(Len(recent)))
        older_avg == RatDiv(SumField(older, metric_name, 1),
                            RatOfInt(Len(older)))
        change == RatMul(RatDiv(RatSub(recent_avg, older_avg), older_avg),
                         RatOfInt(100))
    IN  [change |-> change,
         trend |-> IF RatGt(change, RatOfInt(5)) THEN "up"
                   ELSE IF RatLt(change, RatOfInt(-5)) THEN "down"
                   ELSE "flat",
         divisions |->
             {Division("len_recent", metric_name, RatOfInt(Len(recent))),
              Division("len_older", metric_name, RatOfInt(Len(older))),
              Division("older_avg", metric_name, older_avg)}]

\* calc_trend with >= 5 and <= -5 as the thresholds
calc_trend_inclusive(metric_name, recent, older) ==
    LET recent_avg == RatDiv(SumField(recent, metric_name, 1),
                             RatOfInt(Len(recent)))
        older_avg == RatDiv(SumField(older, metric_name, 1),
                            RatOfInt(Len(older)))
        lens == {Division("len_recent", metric_name, RatOfInt(Len(recent))),
                 Division("len_older", metric_name, RatOfInt(Len(older)))}
        change == RatMul(RatDiv(RatSub(recent_avg, older_avg), older_avg),
                         RatOfInt(100))
    IN  IF older_avg = Zero
        THEN [change |-> Zero, trend |-> "N/A", divisions |-> lens]
        ELSE [change |-> change,
              trend |-> IF ~RatLt(change, RatOfInt(5)) THEN "up"
                        ELSE IF ~RatGt(change, RatOfInt(-5)) THEN "down"
                        ELSE "flat",
              divisions |->
                  lens \cup {Division("older_avg", metric_name, older_avg)}]

\* calc_trend: the directions are the arrows "up", "down", "flat" (right
\* arrow) and "N/A"
calc_trend(metric_name, recent, older) ==
    LET recent_avg == RatDiv(SumField(recent, metric_name, 1),
                             RatOfInt(Len(recent)))
        older_avg == RatDiv(SumField(older, metric_name, 1),
                            RatOfInt(Len(older)))
        lens == {Division("len_recent", metric_name, RatOfInt(Len(recent))),
                 Division("len_older", metric_name, RatOfInt(Len(older)))}
        change == RatMul(RatDiv(RatSub(recent_avg, older_avg), older_avg),
                         RatOfInt(100))
    IN  IF older_avg = Zero
        THEN [change |-> Zero, trend |-> "N/A", divisions |-> lens]
        ELSE [change |-> change,
              trend |-> IF RatGt(change, RatOfInt(5)) THEN "up"
                        ELSE IF RatLt(change, RatOfInt(-5)) THEN "down"
                        ELSE "flat",
              divisions |->
                  lens \cup {Division("older_avg", metric_name, older_avg)}]

NoResults == [m \in {} |-> 0]

\* what generate_trend_analysis does before any call of it
NoReport ==
    [status |-> "none", recent |-> <<>>, older |-> <<>>,
     results |-> NoResults, divisions |-> {}]

\* generate_trend_analysis computing results whenever len >= 2
TrendReportNoOlderCheck(h) ==
    LET recent == RecentWindow(h)
        older == OlderWindow(h)
        res == [m \in metrics_to_analyze |-> calc_trend(m, recent, older)]
    IN  IF Len(h) < 2
        THEN [NoReport EXCEPT !.status = "not_enough_data"]
        ELSE [status |-> "computed", recent |-> recent, older |-> older,
              results |-> [m \in metrics_to_analyze |->
                              [change |-> res[m].change,
                               trend |-> res[m].trend]],
              divisions |-> UNION {res[m].divisions : m \in metrics_to_analyze}]

\* generate_trend_analysis: what it prints, the two windows it took and
\* the divisions it performed
TrendReport(h) ==
    LET recent == RecentWindow(h)
        older == OlderWindow(h)
        res == [m \in metrics_to_analyze |-> calc_trend(m, recent, older)]
    IN  IF Len(h) < 2
        THEN [NoReport EXCEPT !.status = "not_enough_data"]
        ELSE IF older = <<>>
        THEN [NoReport EXCEPT !.status = "not_enough_historical",
                              !.recent = recent, !.older = older]
        ELSE [status |-> "computed", recent |-> recent, older |-> older,
              results |-> [m \in metrics_to_analyze |->
                              [change |-> res[m].change,
                               trend |-> res[m].trend]],
              divisions |-> UNION {res[m].divisions : m \in metrics_to_analyze}]

(***************************************************************************)
(* Bounds and inputs                                                       *)
(***************************************************************************)
\* the monitor loop is followed for at most this many cycles
MaxCycles == 2

\* the history file found at startup holds at most this many records
MaxInitHistory == 1

\* the test runner's output has at most this many lines (extraction engine)
MaxLines == 2

\* the trend analyzer is run on histories of at most this many records
MaxTrendHistory == 12

\* the clock reading at startup, later than every record already on file
ClockStart == MaxInitHistory + MaxTrendHistory + 1

FixtureLines ==
    {LineThroughput, LineThroughputLow, LineLatency, LineLatencyNeg,
     LineMemory, LineMemoryTwo, LineMemoryBad, LineMemoryNeg, LineCache,
     LineCacheOver, LineCacheNoKey, LineSuccess, LineSuccessNeg, LinePassing,
     LineTotal}

RECURSIVE JoinLines(_)
\* '\n'.join(lines)
JoinLines(lines) ==
    IF Len(lines) = 0 THEN <<>>
    ELSE IF Len(lines) = 1 THEN lines[1]
    ELSE lines[1] \o StrNewline \o JoinLines(Tail(lines))

\* the texts the extraction engine is run on
ParseInputs ==
    {JoinLines(ls) : ls \in UNION {[1..k -> FixtureLines] : k \in 0..MaxLines}}

OutputFull ==
    JoinLines(<<LineThroughput, LineLatency, LineMemory, LineCache,
                LineSuccess, LinePassing, LineTotal>>)

OutputOdd == JoinLines(<<LineLatencyNeg, LineCacheOver>>)

\* what the test runner prints in the monitor loop
RunnerOutputs == {OutputFull, OutputOdd, <<>>}

\* the outcomes of subprocess.run: an exit status with the captured
\* stdout, TimeoutExpired, or another exception (returncode -1: none)
RunResults ==
    {[outcome |-> "exit", returncode |-> 0, stdout |-> t] : t \in RunnerOutputs}
    \cup {[outcome |-> "exit", returncode |-> 1, stdout |-> OutputFull],
          [outcome |-> "timeout", returncode |-> -1, stdout |-> <<>>],
          [outcome |-> "error", returncode |-> -1, stdout |-> <<>>]}

NoResult == [outcome |-> "none", returncode |-> -1, stdout |-> <<>>]

\* Python's None for the metrics variable
None == [none |-> TRUE]

\* two records as earlier runs of the monitor left them on file
SampleRecords ==
    {[DefaultMetrics(0) EXCEPT !.throughput = RatOfInt(100),
                               !.latency_avg = Rat(25, 2),
                               !.tests_passed = 3, !.tests_total = 4],
     [DefaultMetrics(0) EXCEPT !.memory_usage = RatOfInt(64),
                               !.cache_hit_ratio = Rat(1751, 20),
                               !.success_rate = RatOfInt(100)]}

\* two records whose fields make the trend of one metric or another come
\* out above, below and exactly on the thresholds, and its older average 0
TrendSamples ==
    {[DefaultMetrics(0) EXCEPT !.throughput = RatOfInt(4),
                               !.latency_avg = RatOfInt(2),
                               !.memory_usage = RatOfInt(0),
                               !.cache_hit_ratio = RatOfInt(50),
                               !.success_rate = RatOfInt(1)],
     [DefaultMetrics(0) EXCEPT !.throughput = RatOfInt(3),
                               !.latency_avg = RatOfInt(1),
                               !.memory_usage = RatOfInt(5),
                               !.cache_hit_ratio = RatOfInt(40),
                               !.success_rate = RatOfInt(-1)]}

\* the histories of at most max records drawn from samples, stamped in
\* the order of collection
HistoriesOf(samples, max) ==
    {[i \in 1..Len(h) |-> [h[i] EXCEPT !.timestamp = IsoFormat(i)]] :
        h \in UNION {[1..k -> samples] : k \in 0..max}}

NoFile == [exists |-> FALSE, data |-> <<>>]

File(toks) == [exists |-> TRUE, data |-> toks]

\* history files the monitor can find at startup: none, a list it wrote,
\* an empty file, a write cut short, or a single object instead of a list
StartupFiles ==
    {NoFile, File(<<>>)}
    \cup {File(JsonDumpList(h)) : h \in HistoriesOf(SampleRecords, MaxInitHistory)}
    \cup {File(SubSeq(JsonDumpList(h), 1, 7)) :
            h \in HistoriesOf(SampleRecords, 1) \ {<<>>}}
    \cup {File(JsonDumpObject(h[1])) :
            h \in HistoriesOf(SampleRecords, 1) \ {<<>>}}

\* the latest file next to a history file
LatestFor(f) ==
    LET loaded == JsonLoad(f.data)
    IN  IF f.exists /\ loaded.ok /\ loaded.kind = "list" /\ loaded.items # <<>>
        THEN File(JsonDumpObject(loaded.items[Len(loaded.items)]))
        ELSE NoFile

(***************************************************************************)
(* State                                                                   *)
(***************************************************************************)
VARIABLES
    mode,              \* args: "continuous", "plot", "trend" or "single"
    pc,                \* where main() is
    metrics_history,   \* self.metrics_history
    history_type,      \* its Python type: "list", or "dict" after a load
    history_file,      \* results_dir / "metrics_history.json"
    latest_file,       \* results_dir / "latest_metrics.json"
    result,            \* the outcome of the last subprocess.run
    metrics,           \* the metrics variable of the current cycle
    clock,             \* datetime.now()
    trend,             \* what the last generate_trend_analysis reported
    exit_code,         \* the exit status of the process
    interrupted,       \* KeyboardInterrupt was raised
    cycle_start_file   \* history: the history file when the cycle began

vars ==
    <<mode, pc, metrics_history, history_type, history_file, latest_file,
      result, metrics, clock, trend, exit_code, interrupted,
      cycle_start_file>>

Modes == {"continuous", "plot", "trend", "single"}

\* PerformanceMonitor.__init__ and the files it finds
InitWith(modes, files) ==
    /\ mode \in modes
    /\ pc = "load"
    /\ metrics_history = <<>>
    /\ history_type = "list"
    /\ history_file \in files
    /\ latest_file = LatestFor(history_file)
    /\ result = NoResult
    /\ metrics = None
    /\ clock = ClockStart
    /\ trend = NoReport
    /\ exit_code = 0
    /\ interrupted = FALSE
    /\ cycle_start_file = history_file

Init == InitWith(Modes, StartupFiles)

(***************************************************************************)
(* Operations                                                              *)
(***************************************************************************)
\* load_metrics_history keeping whatever json.load returned
load_metrics_history ==
    /\ pc = "load"
    /\ LET loaded == JsonLoad(history_file.data)
       IN  IF history_file.exists
           THEN IF loaded.ok
                THEN /\ metrics_history' = loaded.items
                     /\ history_type' = loaded.kind
                ELSE /\ metrics_history' = <<>>
                     /\ history_type' = "list"
           ELSE UNCHANGED <<metrics_history, history_type>>
    /\ pc' = "main"
    /\ UNCHANGED <<mode, history_file, latest_file, result, metrics, clock,
                   trend, exit_code, interrupted, cycle_start_file>>

\* main(): the choice of the mode
Main ==
    /\ pc = "main"
    /\ pc' = IF mode \in {"plot", "trend"} THEN mode ELSE "run"
    /\ UNCHANGED <<mode, metrics_history, history_type, history_file,
                   latest_file, result, metrics, clock, trend, exit_code,
                   interrupted, cycle_start_file>>

\* plot_metrics: reads the history, changes nothing
plot_metrics ==
    /\ pc = "plot"
    /\ pc' = "done"
    /\ UNCHANGED <<mode, metrics_history, history_type, history_file,
                   latest_file, result, metrics, clock, trend, exit_code,
                   interrupted, cycle_start_file>>

\* len(self.metrics_history)
PyLen == IF history_type = "list" THEN Len(metrics_history)
         ELSE Cardinality(DOMAIN metrics_history[1])

\* main() in trend mode: generate_trend_analysis; slicing a dict raises
generate_trend_analysis ==
    /\ pc = "trend"
    /\ IF history_type = "dict" /\ PyLen >= 2
       THEN /\ exit_code' = 1
            /\ UNCHANGED trend
       ELSE /\ trend' = TrendReport(IF history_type = "list"
                                    THEN metrics_history ELSE <<>>)
            /\ UNCHANGED exit_code
    /\ pc' = "done"
    /\ UNCHANGED <<mode, metrics_history, history_type, history_file,
                   latest_file, result, metrics, clock, interrupted,
                   cycle_start_file>>

Succeeded(r) == r.outcome = "exit" /\ r.returncode = 0

\* run_performance_test extracting whatever the exit status
MetricsOfAlways(r, now) == parse_performance_output(r.stdout, now)

\* run_performance_test: the parsed stdout on exit status 0, else None
MetricsOf(r, now) ==
    IF Succeeded(r) THEN parse_performance_output(r.stdout, now) ELSE None

run_performance_test ==
    /\ pc = "run"
    /\ clock < ClockStart + MaxCycles
    /\ \E r \in RunResults :
        /\ result' = r
        /\ metrics' = MetricsOf(r, clock)
    /\ clock' = clock + 1
    /\ cycle_start_file' = history_file
    /\ pc' = "collected"
    /\ UNCHANGED <<mode, metrics_history, history_type, history_file,
                   latest_file, trend, exit_code, interrupted>>

\* the else branch: "Failed to collect metrics", and sys.exit(1) in a
\* single run
FailedToCollect ==
    /\ pc = "collected"
    /\ metrics = None
    /\ IF mode = "continuous"
       THEN pc' = "sleep" /\ UNCHANGED exit_code
       ELSE pc' = "done" /\ exit_code' = 1
    /\ UNCHANGED <<mode, metrics_history, history_type, history_file,
                   latest_file, result, metrics, clock, trend, interrupted,
                   cycle_start_file>>

\* save_metrics, the append; a dict has no append: the AttributeError
\* ends the loop (except Exception) or the single run (uncaught)
SaveAppend ==
    /\ pc = "collected"
    /\ metrics # None
    /\ IF history_type = "list"
       THEN /\ metrics_history' = Append(metrics_history, metrics)
            /\ pc' = "open_history"
            /\ UNCHANGED exit_code
       ELSE /\ pc' = "done"
            /\ exit_code' = IF mode = "continuous" THEN 0 ELSE 1
            /\ UNCHANGED metrics_history
    /\ UNCHANGED <<mode, history_type, history_file, latest_file, result,
                   metrics, clock, trend, interrupted, cycle_start_file>>

\* save_metrics, open(metrics_file, 'w'): the file is truncated
OpenHistoryFile ==
    /\ pc = "open_history"
    /\ history_file' = File(<<>>)
    /\ pc' = "write_history"
    /\ UNCHANGED <<mode, metrics_history, history_type, latest_file, result,
                   metrics, clock, trend, exit_code, interrupted,
                   cycle_start_file>>

\* what json.dump(self.metrics_history, f) writes
HistoryDump == JsonDumpList(metrics_history)

\* save_metrics, json.dump(self.metrics_history, f) to its end
WriteHistoryFile ==
    /\ pc = "write_history"
    /\ history_file' = File(HistoryDump)
    /\ pc' = "open_latest"
    /\ UNCHANGED <<mode, metrics_history, history_type, latest_file, result,
                   metrics, clock, trend, exit_code, interrupted,
                   cycle_start_file>>

\* save_metrics, open(latest_file, 'w')
OpenLatestFile ==
    /\ pc = "open_latest"
    /\ latest_file' = File(<<>>)
    /\ pc' = "write_latest"
    /\ UNCHANGED <<mode, metrics_history, history_type, history_file, result,
                   metrics, clock, trend, exit_code, interrupted,
                   cycle_start_file>>

\* save_metrics, json.dump(metrics, f) to its end
WriteLatestFile ==
    /\ pc = "write_latest"
    /\ latest_file' = File(JsonDumpObject(metrics))
    /\ pc' = "report"
    /\ UNCHANGED <<mode, metrics_history, history_type, history_file, result,
                   metrics, clock, trend, exit_code, interrupted,
                   cycle_start_file>>

\* print_metrics, then generate_trend_analysis when the history has more
\* than one record
Report ==
    /\ pc = "report"
    /\ trend' = IF Len(metrics_history) > 1 THEN TrendReport(metrics_history)
                ELSE trend
    /\ pc' = IF mode = "continuous" THEN "sleep" ELSE "done"
    /\ UNCHANGED <<mode, metrics_history, history_type, history_file,
                   latest_file, result, metrics, clock, exit_code,
                   interrupted, cycle_start_file>>

\* time.sleep(interval) to its end
Sleep ==
    /\ pc = "sleep"
    /\ pc' = "run"
    /\ UNCHANGED <<mode, metrics_history, history_type, history_file,
                   latest_file, result, metrics, clock, trend, exit_code,
                   interrupted, cycle_start_file>>

InLoop ==
    {"run", "collected", "open_history", "write_history", "open_latest",
     "write_latest", "report", "sleep"}

\* the prefixes of a dump that an interrupted json.dump leaves behind
Written(toks) == {SubSeq(toks, 1, k) : k \in 0..Len(toks)}

\* Ctrl+C anywhere in the loop of continuous_monitoring: the with block
\* closes the file on what was written so far, the except clause ends the
\* loop
KeyboardInterrupt ==
    /\ mode = "continuous"
    /\ pc \in InLoop
    /\ interrupted' = TRUE
    /\ pc' = "done"
    /\ IF pc = "write_history"
       THEN \E w \in Written(HistoryDump) : history_file' = File(w)
       ELSE UNCHANGED history_file
    /\ IF pc = "write_latest"
       THEN \E w \in Written(JsonDumpObject(metrics)) : latest_file' = File(w)
       ELSE UNCHANGED latest_file
    /\ UNCHANGED <<mode, metrics_history, history_type, result, metrics,
                   clock, trend, exit_code, cycle_start_file>>

Next ==
    \/ load_metrics_history
    \/ Main
    \/ plot_metrics
    \/ generate_trend_analysis
    \/ run_performance_test
    \/ FailedToCollect
    \/ SaveAppend
    \/ OpenHistoryFile
    \/ WriteHistoryFile
    \/ OpenLatestFile
    \/ WriteLatestFile
    \/ Report
    \/ Sleep
    \/ KeyboardInterrupt

Spec == Init /\ [][Next]_vars

(***************************************************************************)
(* The trend analyzer on its own: generate_trend_analysis over every       *)
(* history of at most MaxTrendHistory records (the file the records were   *)
(* loaded from is left out)                                                *)
(***************************************************************************)
InitTrend ==
    /\ mode = "trend"
    /\ pc = "trend"
    /\ metrics_history \in HistoriesOf(TrendSamples, MaxTrendHistory)
    /\ history_type = "list"
    /\ history_file = NoFile
    /\ latest_file = NoFile
    /\ result = NoResult
    /\ metrics = None
    /\ clock = ClockStart
    /\ trend = NoReport
    /\ exit_code = 0
    /\ interrupted = FALSE
    /\ cycle_start_file = NoFile

NextTrend == generate_trend_analysis

SpecTrend == InitTrend /\ [][NextTrend]_vars

(***************************************************************************)
(* The extraction engine on its own: parse_performance_output over every   *)
(* text of at most MaxLines fixture lines                                  *)
(***************************************************************************)
InitParse ==
    /\ mode = "single"
    /\ pc = "parse"
    /\ metrics_history = <<>>
    /\ history_type = "list"
    /\ history_file = NoFile
    /\ latest_file = NoFile
    /\ result \in {[outcome |-> "exit", returncode |-> 0, stdout |-> t] :
                    t \in ParseInputs}
    /\ metrics = None
    /\ clock = ClockStart
    /\ trend = NoReport
    /\ exit_code = 0
    /\ interrupted = FALSE
    /\ cycle_start_file = NoFile

ParseOutput ==
    /\ pc = "parse"
    /\ metrics' = parse_performance_output(result.stdout, clock)
    /\ pc' = "parsed"
    /\ UNCHANGED <<mode, metrics_history, history_type, history_file,
                   latest_file, result, clock, trend, exit_code, interrupted,
                   cycle_start_file>>

NextParse == ParseOutput

SpecParse == InitParse /\ [][NextParse]_vars

(***************************************************************************)
(* Properties                                                              *)
(***************************************************************************)
\* the invocation of the test runner failed: non-zero exit status,
\* timeout, or an exception starting the process
FailedRun(r) == r.outcome # "none" /\ ~Succeeded(r)

\* C1: a cycle whose test-runner invocation fails extracts nothing and
\* leaves the History, the history file and the latest file as they were;
\* unless it is interrupted the continuous loop then sleeps and starts the
\* next cycle, and a single run exits with a non-zero status.
C1_FailedCycleChangesNothing ==
    [][/\ FailedRun(result') =>
              /\ metrics' = None
              /\ UNCHANGED <<metrics_history, history_file, latest_file>>
       /\ (pc = "collected" /\ FailedRun(result) /\ ~interrupted') =>
              IF mode = "continuous"
              THEN pc' = "sleep" /\ exit_code' = 0
              ELSE pc' = "done" /\ exit_code' # 0
       /\ (pc = "sleep" /\ FailedRun(result) /\ ~interrupted') => pc' = "run"
      ]_vars

\* C1 witness: the continuous loop is about to start the cycle after a
\* failed one, with records on file
C1_Witness ==
    /\ mode = "continuous"
    /\ pc = "run"
    /\ FailedRun(result)
    /\ metrics_history # <<>>
    /\ history_file.exists

\* save_metrics has run to its end in this cycle
SaveCompleted ==
    /\ history_type = "list"
    /\ metrics # None
    /\ ~interrupted
    /\ pc \in {"report", "sleep", "done"}

C3_InterruptLeavesCompleteFile ==
    (mode = "continuous" /\ interrupted /\ pc = "done") =>
        \/ history_file = cycle_start_file
        \/ history_file = File(JsonDumpList(metrics_history))

\* rational k / 1 = x
IsInt(x, k) == x = RatOfInt(k)

\* C4: for a History of n >= 2 records, recent is the last min(5, n)
\* records and older is the 5 records before them when n >= 10, else all
\* records before recent; with 12 records older is records 3 to 7 and
\* records 1 and 2 are in neither window.
C4_TrendWindows ==
    (pc = "done" /\ Len(metrics_history) >= 2) =>
        LET h == metrics_history
            n == Len(h)
            r == Min(5, n)
        IN  /\ trend.recent = [i \in 1..r |-> h[n - r + i]]
            /\ trend.older = IF n >= 10 THEN [i \in 1..5 |-> h[n - 10 + i]]
                             ELSE [i \in 1..(n - r) |-> h[i]]
            /\ n = 12 =>
                /\ trend.older = <<h[3], h[4], h[5], h[6], h[7]>>
                /\ \A i \in {1, 2} :
                    /\ \A j \in 1..Len(trend.recent) : trend.recent[j] # h[i]
                    /\ \A j \in 1..Len(trend.older) : trend.older[j] # h[i]

\* C4 witness: the analysis of a History of 12 records
C4_Witness ==
    /\ pc = "done"
    /\ Len(metrics_history) = 12
    /\ trend.status = "computed"

\* the arithmetic mean of a metric over a window
Mean(w, metric_name) ==
    RatDiv(SumField(w, metric_name, 1), RatOfInt(Len(w)))

\* C5: for each analysed metric with older_avg # 0, the change satisfies
\* change * older_avg = (recent_avg - older_avg) * 100, and the direction
\* is up exactly when change > 5, down exactly when change < -5 and flat
\* otherwise, so flat at exactly +5 and at exactly -5.
C5_ChangeAndDirection ==
    (pc = "done" /\ trend.status = "computed") =>
        \A m \in metrics_to_analyze :
            LET recent_avg == Mean(trend.recent, m)
                older_avg == Mean(trend.older, m)
                res == trend.results[m]
            IN  older_avg.n # 0 =>
                    /\ RatMul(res.change, older_avg) =
                           RatMul(RatSub(recent_avg, older_avg), RatOfInt(100))
                    /\ res.trend = "up" <=> res.change.n > 5 * res.change.d
                    /\ res.trend = "down" <=> res.change.n < -5 * res.change.d
                    /\ res.trend = "flat" <=>
                           /\ res.change.n <= 5 * res.change.d
                           /\ res.change.n >= -5 * res.change.d

\* C5 witness: one metric changed by exactly +5 and is reported flat
\* while another changed by more and is reported up
C5_Witness ==
    /\ pc = "done"
    /\ trend.status = "computed"
    /\ \E m \in metrics_to_analyze :
        /\ IsInt(trend.results[m].change, 5)
        /\ trend.results[m].trend = "flat"
    /\ \E m \in metrics_to_analyze : trend.results[m].trend = "up"

\* C6: the analysis never divides by zero: with fewer than 2 records it
\* reports insufficient data and divides nothing, a window whose length
\* is divided by is non-empty, and a metric whose older average is 0 gets
\* change 0 and direction N/A without a division by that average.
C6_NoDivisionByZero ==
    pc = "done" =>
        /\ \A d \in trend.divisions : d.by.n # 0
        /\ Len(metrics_history) < 2 =>
              trend.status = "not_enough_data" /\ trend.divisions = {}
        /\ \A d \in trend.divisions :
              /\ d.what = "len_recent" =>
                    trend.recent # <<>> /\ IsInt(d.by, Len(trend.recent))
              /\ d.what = "len_older" =>
                    trend.older # <<>> /\ IsInt(d.by, Len(trend.older))
        /\ trend.status = "computed" =>
              \A m \in metrics_to_analyze :
                  SumField(trend.older, m, 1).n = 0 =>
                      /\ trend.results[m] = [change |-> Zero, trend |-> "N/A"]
                      /\ \A d \in trend.divisions :
                            ~(d.what = "older_avg" /\ d.metric = m)

\* C6 witness: an analysis in which the older average of one metric is 0
\* and that of another is not
C6_Witness ==
    /\ pc = "done"
    /\ trend.status = "computed"
    /\ trend.results["memory_usage"].trend = "N/A"
    /\ trend.results["throughput"].trend # "N/A"

\* the lines of a text that contain both Memory: and MB
MemoryLines(output) ==
    LET lines == SplitOn(output, StrNewline)
    IN  {lines[i] : i \in {j \in 1..Len(lines) :
                             /\ Contains(lines[j], StrMemory)
                             /\ Contains(lines[j], StrMB)}}

\* the positions of the tokens of a line that contain MB
MBTokens(line) ==
    {j \in 1..Len(SplitWS(line)) : Contains(SplitWS(line)[j], StrMB)}

\* token j of a line parsed with MB removed
TokenValue(line, j) == PyFloat(Replace(SplitWS(line)[j], StrMB))

\* the greatest of a non-empty set of rationals
RatMaxOf(S) == CHOOSE x \in S : \A y \in S : ~RatLt(x, y)

\* the values of the first MB token of each line, where it parses
FirstTokenValues(output) ==
    {TokenValue(l, j).val : <<l, j>> \in
        {<<l, j>> \in UNION {{l} \X MBTokens(l) : l \in MemoryLines(output)} :
            /\ \A j2 \in MBTokens(l) : j <= j2
            /\ TokenValue(l, j).ok}}

\* the values of the MB tokens of each line up to the first that does
\* not parse
ScannedTokenValues(output) ==
    {TokenValue(l, j).val : <<l, j>> \in
        {<<l, j>> \in UNION {{l} \X MBTokens(l) : l \in MemoryLines(output)} :
            \A j2 \in MBTokens(l) : j2 <= j => TokenValue(l, j2).ok}}

\* C7 as stated: memory_usage is the maximum over the lines containing
\* Memory: and MB of the value of the first token containing MB, 0.0 when
\* there is none; later MB tokens of a line do not contribute.
C7_FirstMBTokenOnly ==
    pc = "parsed" =>
        metrics.memory_usage =
            RatMaxOf(FirstTokenValues(result.stdout) \cup {Zero})

\* C7 amended: memory_usage is the maximum of 0.0 and the values of every
\* token containing MB (MB removed) on the lines containing Memory: and
\* MB, the tokens of a line taken left to right up to the first that does
\* not parse; a later MB token of a line does contribute.
C7_EveryMBTokenUntilError ==
    pc = "parsed" =>
        metrics.memory_usage =
            RatMaxOf(ScannedTokenValues(result.stdout) \cup {Zero})

\* C7 witness: a line with two MB tokens, the second the greater, parsed
C7_Witness ==
    /\ pc = "parsed"
    /\ result.stdout = LineMemoryTwo
    /\ IsInt(metrics.memory_usage, 200)

\* the ranges the data model gives the fields of a Metric Record
InRange(r) ==
    /\ \A f \in {"throughput", "latency_avg", "latency_p95", "memory_usage"} :
          r[f].n >= 0
    /\ \A f \in {"cache_hit_ratio", "success_rate"} :
          r[f].n >= 0 /\ r[f].n <= 100 * r[f].d

\* C8: every record parse_performance_output produces, and every record
\* of the History, has throughput, latency_avg, latency_p95 and
\* memory_usage non-negative and cache_hit_ratio and success_rate within
\* 0 to 100, whatever numbers the test runner printed.
C8_RecordsInRange ==
    /\ metrics # None => InRange(metrics)
    /\ history_type = "list" =>
          \A i \in 1..Len(metrics_history) : InRange(metrics_history[i])

\* the history file is not a JSON list of Metric Records
Malformed(f) ==
    LET loaded == JsonLoad(f.data)
    IN  ~(/\ loaded.ok
          /\ loaded.kind = "list"
          /\ \A i \in 1..Len(loaded.items) : IsMetricRecord(loaded.items[i]))

\* C9: after load_metrics_history on a missing or malformed history file
\* the History is the empty list.
C9_MalformedFileLoadsEmpty ==
    (pc = "main" /\ (~history_file.exists \/ Malformed(history_file))) =>
        history_type = "list" /\ metrics_history = <<>>

\* C10: generate_trend_analysis computes results exactly when the History
\* has at least 6 records: with 2 to 5 the older window is empty and it
\* reports insufficient historical data and no result, with n >= 6 it
\* gives a result for each of the five metrics over an older window of
\* min(5, n - 5) records; it never changes the History.
C10_ComputesFromSixRecords ==
    [][pc = "trend" =>
          LET n == Len(metrics_history)
          IN  /\ metrics_history' = metrics_history
              /\ trend'.status = "computed" <=> n >= 6
              /\ n \in 2..5 =>
                    /\ trend'.older = <<>>
                    /\ trend'.status = "not_enough_historical"
                    /\ DOMAIN trend'.results = {}
              /\ n >= 6 =>
                    /\ DOMAIN trend'.results = metrics_to_analyze
                    /\ Len(trend'.older) = Min(5, n - 5)
      ]_vars

\* C10 witness: the analysis of a History of exactly 6 records, computed
\* over an older window of one record
C10_Witness ==
    /\ pc = "done"
    /\ Len(metrics_history) = 6
    /\ trend.status = "computed"
    /\ Len(trend.older) = 1

====
